---- MODULE Spec2Model ----
(***************************************************************************)
(* Model of src/main.py: the cron matcher is_cron_time and the timed push  *)
(* scheduler of VikiSuperBot (scheduler_loop, simple_push, fetch_api,      *)
(* get_push_targets).                                                      *)
(*                                                                         *)
(* Python strings that the code scans (cron expressions) are sequences of  *)
(* one-character strings.  A Python call outcome is a record with a field  *)
(* exc (TRUE when the call raised) next to its value.                      *)
(***************************************************************************)
EXTENDS Integers, Sequences, FiniteSets, TLC

VARIABLES
    \* ---- cron matcher harness (is_cron_time as a pure function) ----
    cron_fields,   \* the fields the schedule string was written from
    cron_str,      \* the schedule string handed to is_cron_time
    cron_now,      \* the instant handed to is_cron_time
    cron_result,   \* outcome of the call, or the pending marker
    \* ---- scheduler ----
    config,        \* self.config, read-only after construction
    origins,       \* what context.get_all_unified_msg_origins() answers
    clock,         \* wall clock (datetime.datetime.now())
    pc,            \* position of scheduler_loop
    now,           \* the tick captured at line 59
    ticks,         \* number of ticks captured so far
    fired,         \* per job: how often its branch ran in this tick
    pushes,        \* per job: how the HTTP exchange of each simple_push ended
    sentTo,        \* per job: targets a delivery was attempted to, this tick
    lastPush,      \* the simple_push call made by the latest job step
    elapsed,       \* seconds spent in the pass since the tick was captured
    prevTick       \* the previous tick, how long its pass took, its sleep

cronVars == <<cron_fields, cron_str, cron_now, cron_result>>
schedVars == <<config, origins, clock, pc, now, ticks, fired, pushes, sentTo,
               lastPush, elapsed, prevTick>>
vars == <<cron_fields, cron_str, cron_now, cron_result,
          config, origins, clock, pc, now, ticks, fired, pushes, sentTo,
          lastPush, elapsed, prevTick>>

----------------------------------------------------------------------------
(* Bounds *)

\* ticks the scheduler loop captures in one run
MaxTicks == 2

----------------------------------------------------------------------------
(* Python values *)

Ok(v) == [exc |-> FALSE, val |-> v]
Raise(v) == [exc |-> TRUE, val |-> v]

Min(a, b) == IF a < b THEN a ELSE b

Digits == <<"0", "1", "2", "3", "4", "5", "6", "7", "8", "9">>

IsDigit(c) == \E i \in 1..10 : Digits[i] = c

DigitVal(c) == (CHOOSE i \in 1..10 : Digits[i] = c) - 1

IsSpace(c) == c \in {" ", "\t", "\n"}

\* str.split(): the maximal runs of non-whitespace characters, in order
RECURSIVE SplitFrom(_, _, _, _)
SplitFrom(s, i, cur, acc) ==
    IF i > Len(s)
    THEN IF cur = <<>> THEN acc ELSE Append(acc, cur)
    ELSE IF IsSpace(s[i])
         THEN SplitFrom(s, i + 1, <<>>, IF cur = <<>> THEN acc ELSE Append(acc, cur))
         ELSE SplitFrom(s, i + 1, Append(cur, s[i]), acc)

split(s) == SplitFrom(s, 1, <<>>, <<>>)

\* value of a digit string in which single underscores may separate digits
RECURSIVE DigitsValue(_, _, _)
DigitsValue(t, i, acc) ==
    IF i > Len(t) THEN acc
    ELSE IF t[i] = "_" THEN DigitsValue(t, i + 1, acc)
         ELSE DigitsValue(t, i + 1, acc * 10 + DigitVal(t[i]))

WellFormedDigits(t) ==
    /\ Len(t) > 0
    /\ \A i \in 1..Len(t) : IsDigit(t[i]) \/ t[i] = "_"
    /\ IsDigit(t[1]) /\ IsDigit(t[Len(t)])
    /\ \A i \in 1..(Len(t) - 1) : ~(t[i] = "_" /\ t[i + 1] = "_")

\* int(token): an optional sign and decimal digits, ValueError otherwise
int(t) ==
    LET signed == Len(t) > 0 /\ t[1] \in {"+", "-"}
        body == IF signed THEN Tail(t) ELSE t
    IN  IF WellFormedDigits(body)
        THEN Ok(IF signed /\ t[1] = "-"
                THEN 0 - DigitsValue(body, 1, 0)
                ELSE DigitsValue(body, 1, 0))
        ELSE Raise(0)

----------------------------------------------------------------------------
(* datetime *)

IsLeap(y) == (y % 4 = 0) /\ ((y % 100 # 0) \/ (y % 400 = 0))

DaysInMonth(y, m) ==
    IF m = 2 THEN (IF IsLeap(y) THEN 29 ELSE 28)
    ELSE IF m \in {4, 6, 9, 11} THEN 30 ELSE 31

RECURSIVE DaysBeforeMonth(_, _)
DaysBeforeMonth(y, m) ==
    IF m = 1 THEN 0 ELSE DaysBeforeMonth(y, m - 1) + DaysInMonth(y, m - 1)

DaysBeforeYear(y) ==
    (y - 1) * 365 + ((y - 1) \div 4) - ((y - 1) \div 100) + ((y - 1) \div 400)

\* date.toordinal(): 0001-01-01 is day 1
toordinal(t) == DaysBeforeYear(t.year) + DaysBeforeMonth(t.year, t.month) + t.day

\* datetime.weekday(): Monday is 0, Sunday is 6
weekday(t) == (toordinal(t) + 6) % 7

DateTime(y, mo, d, h, mi, s) ==
    [year |-> y, month |-> mo, day |-> d, hour |-> h, minute |-> mi, second |-> s]

----------------------------------------------------------------------------
(* is_cron_time, src/main.py lines 12-21 *)

\* line 16, with Monday counted as 0
current_time_weekday0(t) == <<t.minute, t.hour, t.day, t.month, weekday(t)>>

\* line 16
current_time(t) == <<t.minute, t.hour, t.day, t.month, weekday(t) + 1>>

\* lines 17-20: the loop over the five fields, from field i on
RECURSIVE MatchFrom(_, _, _)
MatchFrom(parts, cur, i) ==
    IF i > 5 THEN Ok(TRUE)
    ELSE IF parts[i] = <<"*">> THEN MatchFrom(parts, cur, i + 1)
         ELSE LET n == int(parts[i])
              IN  IF n.exc THEN Raise(FALSE)
                  ELSE IF n.val # cur[i] THEN Ok(FALSE)
                       ELSE MatchFrom(parts, cur, i + 1)

\* the body of the try block, lines 14-20
cron_body(cron_str_, now_) ==
    LET parts == split(cron_str_)
    IN  IF Len(parts) # 5 THEN Ok(FALSE)
        ELSE MatchFrom(parts, current_time(now_), 1)

\* is_cron_time without its except clause
is_cron_time_unguarded(cron_str_, now_) == cron_body(cron_str_, now_)

\* is_cron_time: any exception of the body is turned into False (line 21)
is_cron_time(cron_str_, now_) ==
    LET r == cron_body(cron_str_, now_)
    IN  IF r.exc THEN Ok(FALSE) ELSE r

----------------------------------------------------------------------------
(* Inputs of the cron matcher *)

Wild == [text |-> <<"*">>, kind |-> "wild", val |-> 0]
Lit(text, n) == [text |-> text, kind |-> "int", val |-> n]
Bad(text) == [text |-> text, kind |-> "bad", val |-> 0]

\* what may be written in each of the five positions
MinuteTokens == {Wild, Lit(<<"5">>, 5), Lit(<<"0", "5">>, 5), Lit(<<"0">>, 0),
                 Bad(<<"x">>)}
HourTokens == {Wild, Lit(<<"9">>, 9), Lit(<<"0">>, 0), Bad(<<"9", "h">>)}
DayTokens == {Wild, Lit(<<"1", "5">>, 15), Lit(<<"1">>, 1), Lit(<<"1", "_", "5">>, 15),
              Bad(<<"1", ".", "5">>)}
MonthTokens == {Wild, Lit(<<"3">>, 3), Lit(<<"+", "1">>, 1), Bad(<<"*", "/", "3">>)}
DowTokens == {Wild, Lit(<<"1">>, 1), Lit(<<"7">>, 7), Lit(<<"0">>, 0), Lit(<<"6">>, 6),
              Bad(<<"m", "o", "n">>)}

FiveFields ==
    {<<a, b, c, d, e>> : a \in MinuteTokens, b \in HourTokens, c \in DayTokens,
                         d \in MonthTokens, e \in DowTokens}

\* schedules with another number of fields; <<>> is the default "" of a
\* missing cron key
CountTokens == {Wild, Lit(<<"5">>, 5)}
OtherCounts ==
    UNION {[1..n -> CountTokens] : n \in {0, 1, 2, 3, 4, 6}}

\* how the fields are laid out in the string
Layouts == {[lead |-> <<>>, sep |-> <<" ">>, trail |-> <<>>],
            [lead |-> <<" ">>, sep |-> <<" ", " ">>, trail |-> <<" ">>],
            [lead |-> <<>>, sep |-> <<"\t">>, trail |-> <<"\n">>]}

RECURSIVE JoinFrom(_, _, _)
JoinFrom(fields, sep, i) ==
    IF i > Len(fields) THEN <<>>
    ELSE fields[i].text \o (IF i < Len(fields) THEN sep ELSE <<>>)
         \o JoinFrom(fields, sep, i + 1)

Render(fields, layout) == layout.lead \o JoinFrom(fields, layout.sep, 1) \o layout.trail

\* instants with their day of the week from the calendar (Monday = 1)
Calendar == {[t |-> DateTime(2025, 3, 15, 9, 5, 42), dow |-> 6],
             [t |-> DateTime(2025, 3, 15, 9, 6, 0), dow |-> 6],
             [t |-> DateTime(2024, 1, 1, 0, 0, 0), dow |-> 1],
             [t |-> DateTime(2024, 3, 3, 23, 59, 30), dow |-> 7]}

CalendarDow(t) == (CHOOSE e \in Calendar : e.t = t).dow

Pending == [done |-> FALSE, exc |-> FALSE, val |-> FALSE]
Returned(r) == [done |-> TRUE, exc |-> r.exc, val |-> r.val]

----------------------------------------------------------------------------
(* JSON values as resp.json() returns them.  Every value has all the      *)
(* fields: t is the Python type, n an int's value, s a str's characters,  *)
(* items a list's elements, d a dict's key/value pairs.                   *)

JNull == [t |-> "NoneType", n |-> 0, s |-> <<>>, items |-> <<>>, d |-> <<>>]
JInt(n) == [t |-> "int", n |-> n, s |-> <<>>, items |-> <<>>, d |-> <<>>]
JStr(s) == [t |-> "str", n |-> 0, s |-> s, items |-> <<>>, d |-> <<>>]
JList(items) == [t |-> "list", n |-> 0, s |-> <<>>, items |-> items, d |-> <<>>]
JDict(d) == [t |-> "dict", n |-> 0, s |-> <<>>, items |-> <<>>, d |-> d]
KV(k, v) == [k |-> k, v |-> v]

\* bool(v)
Truthy(v) ==
    CASE v.t = "NoneType" -> FALSE
      [] v.t = "int" -> v.n # 0
      [] v.t = "str" -> Len(v.s) > 0
      [] v.t = "list" -> Len(v.items) > 0
      [] v.t = "dict" -> Len(v.d) > 0

IsSubstring(k, s) ==
    \E i \in 0..(Len(s) - Len(k)) : \A j \in 1..Len(k) : s[i + j] = k[j]

\* key in v, for a str key
Contains(key, v) ==
    CASE v.t = "dict" -> Ok(\E i \in 1..Len(v.d) : v.d[i].k = key)
      [] v.t = "list" -> Ok(\E i \in 1..Len(v.items) :
                               v.items[i].t = "str" /\ v.items[i].s = key)
      [] v.t = "str" -> Ok(IsSubstring(key, v.s))
      [] OTHER -> Raise(FALSE)

\* v[key], for a str key
GetItem(v, key) ==
    IF v.t = "dict" /\ \E i \in 1..Len(v.d) : v.d[i].k = key
    THEN Ok(v.d[CHOOSE i \in 1..Len(v.d) : v.d[i].k = key].v)
    ELSE Raise(JNull)

\* v[:n]
SliceTo(v, n) ==
    CASE v.t = "list" -> Ok(JList(SubSeq(v.items, 1, Min(n, Len(v.items)))))
      [] v.t = "str" -> Ok(JStr(SubSeq(v.s, 1, Min(n, Len(v.s)))))
      [] OTHER -> Raise(JNull)

\* "\n".join(v): the number of joined pieces, TypeError unless all are str
join(v) ==
    CASE v.t = "list" -> IF \A i \in 1..Len(v.items) : v.items[i].t = "str"
                         THEN Ok(Len(v.items)) ELSE Raise(0)
      [] v.t = "str" -> Ok(Len(v.s))
      [] OTHER -> Raise(0)

----------------------------------------------------------------------------
(* fetch_api, src/main.py lines 33-41 *)

\* what the HTTP exchange of line 37 can come to
HttpError == [kind |-> "error", status |-> 0, parses |-> FALSE, body |-> JNull]
HttpResp(status, body) == [kind |-> "response", status |-> status, parses |-> TRUE, body |-> body]
HttpGarbage(status) == [kind |-> "response", status |-> status, parses |-> FALSE, body |-> JNull]

None == [none |-> TRUE, json |-> JNull]
Some(v) == [none |-> v.t = "NoneType", json |-> v]

\* fetch_api that returns the body whatever the status code
fetch_api_any_status(resp) ==
    IF resp.kind = "error" THEN None
    ELSE IF resp.parses THEN Some(resp.body) ELSE None

\* fetch_api: the body of a 200 response, None in every other case
fetch_api(resp) ==
    IF resp.kind = "error" THEN None
    ELSE IF resp.status = 200
         THEN (IF resp.parses THEN Some(resp.body) ELSE None)
         ELSE None

----------------------------------------------------------------------------
(* get_push_targets, src/main.py lines 43-55 *)

\* "GroupMessage" in origin, an origin being its ":"-separated segments
IsGroupOrigin(origin) == \E i \in 1..Len(origin) : origin[i] = "GroupMessage"

\* get_push_targets without the preference for groups
get_push_targets_all(cfg, host) ==
    LET targets == cfg.global_target_groups
    IN  IF targets # <<>> THEN [targets |-> targets, consulted |-> FALSE]
        ELSE IF host.exc THEN [targets |-> targets, consulted |-> TRUE]
             ELSE [targets |-> host.val, consulted |-> TRUE]

get_push_targets(cfg, host) ==
    LET targets == cfg.global_target_groups
    IN  IF targets # <<>> THEN [targets |-> targets, consulted |-> FALSE]
        ELSE IF host.exc THEN [targets |-> targets, consulted |-> TRUE]
             ELSE LET groups == SelectSeq(host.val, IsGroupOrigin)
                  IN  [targets |-> IF groups = <<>> THEN host.val ELSE groups,
                       consulted |-> TRUE]

----------------------------------------------------------------------------
(* simple_push, src/main.py lines 84-107 *)

\* lines 103-107 without the try/except: the first failing send ends the loop
RECURSIVE send_all_unguarded(_, _, _)
send_all_unguarded(targets, fails, i) ==
    IF i > Len(targets) THEN Ok(<<>>)
    ELSE IF i \in fails
         THEN Raise(<<[target |-> targets[i], ok |-> FALSE]>>)
         ELSE LET rest == send_all_unguarded(targets, fails, i + 1)
              IN  [exc |-> rest.exc,
                   val |-> <<[target |-> targets[i], ok |-> TRUE]>> \o rest.val]

\* lines 103-107: one send per target, from target i on; send_message
\* raises for the targets whose index is in fails
RECURSIVE send_all(_, _, _)
send_all(targets, fails, i) ==
    IF i > Len(targets) THEN Ok(<<>>)
    ELSE LET rest == send_all(targets, fails, i + 1)
         IN  [exc |-> rest.exc,
              val |-> <<[target |-> targets[i], ok |-> i \notin fails]>> \o rest.val]

\* lines 90-95: the component list, as its kind; Image.fromURL is given a
\* str by every body of JsonBodies and is taken to return
components(name, res) ==
    IF res.t = "dict" /\ Contains(<<"i", "m", "a", "g", "e">>, res).val
    THEN Ok("Image")
    ELSE IF res.t = "dict" /\ Contains(<<"n", "e", "w", "s">>, res).val
         THEN LET news == GetItem(res, <<"n", "e", "w", "s">>).val
                  first == SliceTo(news, 15)
              IN  IF first.exc THEN Raise("none")
                  ELSE IF join(first.val).exc THEN Raise("none")
                       ELSE Ok("Plain")
         ELSE Ok("none")

NoPush == [result |-> "none", built |-> FALSE, targets |-> <<>>, attempts |-> <<>>,
           consulted |-> FALSE]

\* simple_push: resp is the outcome of the HTTP exchange, fails the targets
\* whose send_message raises
simple_push(cfg, host, name, resp, fails) ==
    LET data == fetch_api(resp)
        key == <<"d", "a", "t", "a">>
    IN  IF data.none THEN [NoPush EXCEPT !.result = "nofetch"]
        ELSE IF ~Truthy(data.json) THEN [NoPush EXCEPT !.result = "nodata"]
        ELSE IF Contains(key, data.json).exc THEN [NoPush EXCEPT !.result = "raised"]
        ELSE IF ~Contains(key, data.json).val THEN [NoPush EXCEPT !.result = "nodata"]
        ELSE IF GetItem(data.json, key).exc THEN [NoPush EXCEPT !.result = "raised"]
        ELSE LET comp == components(name, GetItem(data.json, key).val)
             IN  IF comp.exc THEN [NoPush EXCEPT !.result = "raised"]
                 ELSE IF comp.val = "none" THEN [NoPush EXCEPT !.result = "nodata"]
                 ELSE LET t == get_push_targets(cfg, host)
                          sent == send_all(t.targets, fails, 1)
                      IN  [result |-> IF sent.exc THEN "raised" ELSE "sent",
                           built |-> TRUE,
                           targets |-> t.targets,
                           attempts |-> sent.val,
                           consulted |-> t.consulted]

----------------------------------------------------------------------------
(* The wall clock *)

RECURSIVE AddDays(_, _)
AddDays(t, n) ==
    IF n = 0 THEN t
    ELSE IF t.day < DaysInMonth(t.year, t.month)
         THEN AddDays([t EXCEPT !.day = t.day + 1], n - 1)
         ELSE IF t.month < 12
              THEN AddDays([t EXCEPT !.day = 1, !.month = t.month + 1], n - 1)
              ELSE AddDays([t EXCEPT !.day = 1, !.month = 1, !.year = t.year + 1], n - 1)

\* the instant d seconds after t
AddSeconds(t, d) ==
    LET total == (t.hour * 60 + t.minute) * 60 + t.second + d
        rest == total % 86400
    IN  AddDays([t EXCEPT !.hour = rest \div 3600,
                          !.minute = (rest % 3600) \div 60,
                          !.second = rest % 60],
                total \div 86400)

\* minutes and seconds since 2000-01-01 00:00:00
MinuteIndex(t) ==
    ((toordinal(t) - toordinal(DateTime(2000, 1, 1, 0, 0, 0))) * 24 + t.hour) * 60 + t.minute
SecondIndex(t) == MinuteIndex(t) * 60 + t.second

----------------------------------------------------------------------------
(* scheduler_loop, src/main.py lines 57-82 *)

\* the five jobs in the order of the loop body
Jobs == <<"60s", "moyu", "weather", "exchange", "history">>
JobSet == {Jobs[i] : i \in 1..Len(Jobs)}

\* where the loop goes after job j
After(j) ==
    CASE j = "60s" -> "moyu"
      [] j = "moyu" -> "weather"
      [] j = "weather" -> "exchange"
      [] j = "exchange" -> "history"
      [] j = "history" -> "sleep"

\* self.config.get("cron_" + j, "")
config_cron(cfg, j) == IF cfg.cron[j].present THEN cfg.cron[j].str ELSE <<>>

\* the condition of the if statement of job j (lines 61, 65, 69, 75, 79)
Evaluate(cfg, j, tick) ==
    IF cfg.enable[j] THEN is_cron_time(config_cron(cfg, j), tick) ELSE Ok(FALSE)

\* the simple_push calls job j makes when it is due
Calls(cfg, j) == IF j = "weather" THEN cfg.city_weather ELSE <<j>>

\* line 82 counting from the last second of the minute
sleep_seconds_59(tick) == 59 - tick.second

\* the argument of asyncio.sleep, line 82
sleep_seconds(tick) == 60 - tick.second

\* seconds one simple_push call may take (its awaits)
PushDurations == {0, 25}

\* sets of target indices whose delivery fails
FailSets == SUBSET (1..2)

JsonBodies ==
    LET image == <<"i", "m", "a", "g", "e">>
        news == <<"n", "e", "w", "s">>
        data == <<"d", "a", "t", "a">>
        line == JStr(<<"a">>)
    IN  << JNull,
           JInt(5),
           JList(<<>>),
           JList(<<JStr(data)>>),
           JStr(<<"n", "o", " ", "d", "a", "t", "a">>),
           JDict(<<KV(<<"c", "o", "d", "e">>, JInt(500))>>),
           JDict(<<KV(data, JNull)>>),
           JDict(<<KV(data, JDict(<<KV(<<"t", "i", "p">>, line)>>))>>),
           JDict(<<KV(data, JDict(<<KV(image, JStr(<<"h", "t", "t", "p">>))>>))>>),
           JDict(<<KV(data, JDict(<<KV(news, JList(<<line, line>>))>>))>>),
           JDict(<<KV(data, JDict(<<KV(news, JList([i \in 1..16 |-> line]))>>))>>),
           JDict(<<KV(data, JDict(<<KV(news, JStr(<<"a", "b">>))>>))>>),
           JDict(<<KV(data, JDict(<<KV(news, JInt(7))>>))>>),
           JDict(<<KV(data, JDict(<<KV(news, JList(<<line, JInt(1)>>))>>))>>) >>

\* the outcomes of one HTTP exchange
HttpOutcomes ==
    {HttpError, HttpGarbage(200), HttpResp(500, JsonBodies[9]), HttpResp(404, JsonBodies[10])}
    \cup {HttpResp(200, JsonBodies[i]) : i \in 1..Len(JsonBodies)}

\* the exchanges the fetch cannot use, those that carry an image or a list
\* of news lines, and the rest
HttpClass(resp) ==
    IF resp.kind = "error" \/ resp.status # 200 \/ ~resp.parses THEN "failed"
    ELSE IF resp.body \in {JsonBodies[9], JsonBodies[10], JsonBodies[11]} THEN "content"
    ELSE "other"

NoTick == [valid |-> FALSE, now |-> DateTime(1, 1, 1, 0, 0, 0), elapsed |-> 0, sleep |-> 0,
           fired |-> [j \in JobSet |-> 0]]

\* line 59: a new tick is captured
Capture ==
    /\ pc = "capture"
    /\ ticks < MaxTicks
    /\ now' = clock
    /\ ticks' = ticks + 1
    /\ fired' = [j \in JobSet |-> 0]
    /\ pushes' = [j \in JobSet |-> <<>>]
    /\ sentTo' = [j \in JobSet |-> <<>>]
    /\ lastPush' = NoPush
    /\ elapsed' = 0
    /\ pc' = "60s"
    /\ UNCHANGED <<config, origins, clock, prevTick, cronVars>>

\* the if statement of job j: the job is skipped, or its branch is entered
\* and its first simple_push call, if any, is awaited
Enter(j) ==
    /\ pc = j
    /\ fired[j] = 0
    /\ LET due == Evaluate(config, j, now)
       IN  IF due.exc
           THEN /\ pc' = "crashed"
                /\ UNCHANGED <<fired, pushes, sentTo, lastPush, clock, elapsed>>
           ELSE IF ~due.val \/ Calls(config, j) = <<>>
           THEN /\ pc' = After(j)
                /\ fired' = [fired EXCEPT ![j] = IF due.val THEN 1 ELSE 0]
                /\ lastPush' = NoPush
                /\ UNCHANGED <<pushes, sentTo, clock, elapsed>>
           ELSE \E resp \in HttpOutcomes, fails \in FailSets, dur \in PushDurations :
                   LET r == simple_push(config, origins, Calls(config, j)[1], resp, fails)
                   IN  /\ fired' = [fired EXCEPT ![j] = 1]
                       /\ pushes' = [pushes EXCEPT ![j] = Append(@, HttpClass(resp))]
                       /\ sentTo' = [sentTo EXCEPT ![j] =
                                        @ \o [i \in 1..Len(r.attempts) |-> r.attempts[i].target]]
                       /\ lastPush' = r
                       /\ clock' = AddSeconds(clock, dur)
                       /\ elapsed' = elapsed + dur
                       /\ pc' = IF r.result = "raised" THEN "crashed"
                                ELSE IF Len(Calls(config, j)) > 1 THEN j ELSE After(j)
    /\ UNCHANGED <<config, origins, now, ticks, prevTick, cronVars>>

Job60s == Enter("60s")
JobMoyu == Enter("moyu")
JobWeather == Enter("weather")
JobExchange == Enter("exchange")
JobHistory == Enter("history")

\* lines 71-72: the simple_push of the next city of the weather job
WeatherCity ==
    /\ pc = "weather"
    /\ fired["weather"] = 1
    /\ LET calls == Calls(config, "weather")
           k == Len(pushes["weather"]) + 1
       IN  \E resp \in HttpOutcomes, fails \in FailSets, dur \in PushDurations :
              LET r == simple_push(config, origins, calls[k], resp, fails)
              IN  /\ pushes' = [pushes EXCEPT !["weather"] = Append(@, HttpClass(resp))]
                  /\ sentTo' = [sentTo EXCEPT !["weather"] =
                                   @ \o [i \in 1..Len(r.attempts) |-> r.attempts[i].target]]
                  /\ lastPush' = r
                  /\ clock' = AddSeconds(clock, dur)
                  /\ elapsed' = elapsed + dur
                  /\ pc' = IF r.result = "raised" THEN "crashed"
                           ELSE IF k < Len(calls) THEN "weather" ELSE After("weather")
    /\ UNCHANGED <<config, origins, now, ticks, fired, prevTick, cronVars>>

\* line 82: the end-of-iteration sleep, which returns after the requested time
Sleep ==
    /\ pc = "sleep"
    /\ LET secs == sleep_seconds(now)
       IN  /\ clock' = AddSeconds(clock, secs)
           /\ prevTick' = [valid |-> TRUE, now |-> now, elapsed |-> elapsed, sleep |-> secs,
                           fired |-> fired]
    /\ pc' = "capture"
    /\ lastPush' = NoPush
    /\ UNCHANGED <<config, origins, now, ticks, fired, pushes, sentTo, elapsed, cronVars>>

----------------------------------------------------------------------------
(* Configurations and environments *)

Chars5(a, b, c, d, e) == a \o <<" ">> \o b \o <<" ">> \o c \o <<" ">> \o d \o <<" ">> \o e

Present(str) == [present |-> TRUE, str |-> str]
Missing == [present |-> FALSE, str |-> <<>>]

EveryMinute == Present(Chars5(<<"*">>, <<"*">>, <<"*">>, <<"*">>, <<"*">>))
AtSixPast == Present(Chars5(<<"6">>, <<"*">>, <<"*">>, <<"*">>, <<"*">>))
OnMonday == Present(Chars5(<<"*">>, <<"*">>, <<"*">>, <<"*">>, <<"1">>))
EveryFive == Present(Chars5(<<"*", "/", "5">>, <<"*">>, <<"*">>, <<"*">>, <<"*">>))

MixedTable ==
    [j \in JobSet |-> CASE j = "60s" -> AtSixPast
                        [] j = "moyu" -> OnMonday
                        [] j = "weather" -> EveryMinute
                        [] j = "exchange" -> Missing
                        [] j = "history" -> EveryFive]

Group1 == <<"aiocqhttp", "GroupMessage", "1001">>
Friend1 == <<"aiocqhttp", "FriendMessage", "2002">>
Friend2 == <<"aiocqhttp", "FriendMessage", "2003">>

TargetLists == {<<>>, <<Friend1, Group1>>}

Config(enabled, table, cities, groups) ==
    [enable |-> [j \in JobSet |-> j \in enabled], cron |-> table,
     global_target_groups |-> groups, city_weather |-> cities]

\* every job scheduled for every minute, two of them enabled (one when it is
\* the weather job with two cities); or all enabled on mixed schedules
Configs ==
    {Config(e, [j \in JobSet |-> EveryMinute], <<"Beijing">>, g) :
        e \in {{"60s", "moyu"}, {"moyu", "weather"}, {"exchange", "history"}},
        g \in TargetLists}
    \cup {Config({"weather"}, [j \in JobSet |-> EveryMinute], w, g) :
        w \in {<<>>, <<"Beijing", "Shanghai">>}, g \in TargetLists}
    \cup {Config(JobSet, MixedTable, <<"Beijing">>, g) : g \in TargetLists}

\* answers of context.get_all_unified_msg_origins()
HostAnswers == {Raise(<<>>), Ok(<<>>), Ok(<<Friend1, Group1>>), Ok(<<Friend1, Friend2>>)}

StartInstants == {DateTime(2025, 3, 15, 9, 5, 42), DateTime(2024, 3, 3, 23, 59, 30),
                  DateTime(2024, 12, 31, 23, 59, 0)}

IdleCron ==
    /\ cron_fields = <<>>
    /\ cron_str = <<>>
    /\ cron_now = DateTime(1, 1, 1, 0, 0, 0)
    /\ cron_result = Pending

Init ==
    /\ IdleCron
    /\ config \in Configs
    /\ origins \in HostAnswers
    /\ config.global_target_groups # <<>> => origins \in {Raise(<<>>), Ok(<<Friend1, Group1>>)}
    /\ clock \in StartInstants
    /\ pc = "capture"
    /\ now = DateTime(1, 1, 1, 0, 0, 0)
    /\ ticks = 0
    /\ fired = [j \in JobSet |-> 0]
    /\ pushes = [j \in JobSet |-> <<>>]
    /\ sentTo = [j \in JobSet |-> <<>>]
    /\ lastPush = NoPush
    /\ elapsed = 0
    /\ prevTick = NoTick

Next ==
    \/ Capture
    \/ Job60s
    \/ JobMoyu
    \/ JobWeather
    \/ WeatherCity
    \/ JobExchange
    \/ JobHistory
    \/ Sleep

Spec == Init /\ [][Next]_vars

----------------------------------------------------------------------------
(* The cron matcher on its own *)

\* the scheduler is not running
IdleScheduler ==
    /\ config = [enable |-> [j \in JobSet |-> FALSE], cron |-> [j \in JobSet |-> Missing],
                 global_target_groups |-> <<>>, city_weather |-> <<>>]
    /\ origins = Ok(<<>>)
    /\ clock = DateTime(1, 1, 1, 0, 0, 0)
    /\ pc = "idle"
    /\ now = DateTime(1, 1, 1, 0, 0, 0)
    /\ ticks = 0
    /\ fired = [j \in JobSet |-> 0]
    /\ pushes = [j \in JobSet |-> <<>>]
    /\ sentTo = [j \in JobSet |-> <<>>]
    /\ lastPush = NoPush
    /\ elapsed = 0
    /\ prevTick = NoTick

InitCron ==
    /\ IdleScheduler
    /\ cron_fields \in FiveFields \cup OtherCounts
    /\ \E layout \in Layouts : cron_str = Render(cron_fields, layout)
    /\ \E e \in Calendar : cron_now = e.t
    /\ cron_result = Pending

\* one call is_cron_time(cron_str, cron_now)
CallCron ==
    /\ ~cron_result.done
    /\ cron_result' = Returned(is_cron_time(cron_str, cron_now))
    /\ UNCHANGED <<cron_fields, cron_str, cron_now, schedVars>>

NextCron == CallCron

SpecCron == InitCron /\ [][NextCron]_vars

----------------------------------------------------------------------------
(* Properties of the scheduler *)

\* the tick's pass is over: the loop is at its sleep, or it has died
TickOver == pc \in {"sleep", "crashed"}

\* job j is enabled and its schedule matches the captured tick
Due(j) == config.enable[j] /\ is_cron_time(config_cron(config, j), now).val

DueJobs == {j \in JobSet : Due(j)}

Targets(attempts) == [i \in 1..Len(attempts) |-> attempts[i].target]

AllAre(seq, x) == \A i \in 1..Len(seq) : seq[i] = x

RECURSIVE Repeat(_, _)
Repeat(seq, n) == IF n = 0 THEN <<>> ELSE seq \o Repeat(seq, n - 1)

\* C1: when the pass of a tick is over, every job that is enabled and whose
\* schedule matches the tick has run exactly once, and no other job has run,
\* whatever the other jobs of the tick did.
C1_ExactlyOncePerTick ==
    TickOver => \A j \in JobSet : fired[j] = IF Due(j) THEN 1 ELSE 0

\* C2: no payload, message construction, target resolution or delivery
\* outcome of a job ends the scheduler loop.
C2_LoopSurvivesEveryJob == pc # "crashed"

\* C5: once simple_push has built its payload and resolved the targets, it
\* attempts one delivery per resolved target, in order, whichever of them
\* fail, and neither the push nor the tick is aborted.
C5_EveryTargetAttempted ==
    lastPush.built =>
        /\ Targets(lastPush.attempts) = lastPush.targets
        /\ lastPush.result = "sent"
        /\ pc # "crashed"

\* a push whose first delivery failed and whose second was still attempted
C5_Witness ==
    /\ lastPush.built
    /\ Len(lastPush.attempts) = 2
    /\ ~lastPush.attempts[1].ok
    /\ lastPush.attempts[2].target = lastPush.targets[2]

\* C6: in a tick where exactly two jobs are due, one whose fetches all fail
\* (error, timeout, non-200 status, unparseable body) and one whose fetches
\* all bring content, the pass completes, the second job's content goes to
\* its targets once per call, the first delivers nothing and fetches once
\* per call, in either order of the two jobs.
C6_FailedFetchDoesNotBlock ==
    \A a \in JobSet, b \in JobSet :
        ( /\ TickOver
          /\ a # b
          /\ DueJobs = {a, b}
          /\ Calls(config, a) # <<>>
          /\ \A j \in JobSet \ {a, b} : pushes[j] = <<>>
          /\ AllAre(pushes[a], "failed")
          /\ AllAre(pushes[b], "content") )
        => /\ pc = "sleep"
           /\ Len(pushes[a]) = Len(Calls(config, a))
           /\ Len(pushes[b]) = Len(Calls(config, b))
           /\ sentTo[a] = <<>>
           /\ sentTo[b] = Repeat(get_push_targets(config, origins).targets,
                                 Len(Calls(config, b)))

\* the failing job comes first and the other job has delivered
C6_Witness ==
    /\ pc = "sleep"
    /\ DueJobs = {"60s", "moyu"}
    /\ pushes["60s"] = <<"failed">>
    /\ pushes["moyu"] = <<"content">>
    /\ sentTo["60s"] = <<>>
    /\ Len(sentTo["moyu"]) = 2

\* the destinations of the host that are groups
KnownGroups == {Group1}
IsKnownGroup(o) == o \in KnownGroups

\* C7: the targets of a push are the configured list when it is not empty,
\* and then the host is not asked; otherwise they are the group destinations
\* the host knows, or all its destinations when none is a group; deliveries
\* go to exactly these targets.
C7_TargetResolution ==
    lastPush.built =>
        /\ Targets(lastPush.attempts) = lastPush.targets
        /\ IF config.global_target_groups # <<>>
           THEN /\ lastPush.targets = config.global_target_groups
                /\ ~lastPush.consulted
           ELSE /\ lastPush.consulted
                /\ ~origins.exc =>
                      lastPush.targets =
                         IF \E i \in 1..Len(origins.val) : IsKnownGroup(origins.val[i])
                         THEN SelectSeq(origins.val, IsKnownGroup)
                         ELSE origins.val

\* no configured list, the host knows a friend and a group: only the group
\* is delivered to
C7_Witness ==
    /\ lastPush.built
    /\ config.global_target_groups = <<>>
    /\ origins = Ok(<<Friend1, Group1>>)
    /\ Targets(lastPush.attempts) = <<Group1>>

\* now is the tick that follows prevTick
AfterSleep == prevTick.valid /\ pc # "capture"

\* C8: when the pass of a tick ends within the tick's minute, the next tick
\* is captured at second 0 of the following minute; after a tick at second
\* 42 the wake comes at most 18 seconds after the pass.
C8_WakeAtMinuteBoundary ==
    AfterSleep =>
        /\ prevTick.now.second + prevTick.elapsed < 60 =>
              /\ now.second = 0
              /\ MinuteIndex(now) = MinuteIndex(prevTick.now) + 1
        /\ prevTick.now.second = 42 =>
              SecondIndex(now) - (SecondIndex(prevTick.now) + prevTick.elapsed) <= 18

\* C9: when the pass of a tick took longer than the seconds that were left
\* in the tick's minute, the sleep is zero and the next tick is captured as
\* soon as the pass is over.
C9_NoSleepAfterOverrun ==
    (AfterSleep /\ prevTick.elapsed > 60 - prevTick.now.second) =>
        /\ prevTick.sleep = 0
        /\ SecondIndex(now) = SecondIndex(prevTick.now) + prevTick.elapsed

\* C10: a tick is captured no earlier than the start of the minute after
\* the previous tick's, so no two ticks share a minute and no job runs twice
\* for the same minute.
C10_OneTickPerMinute ==
    /\ \A j \in JobSet : fired[j] <= 1
    /\ AfterSleep =>
          /\ SecondIndex(now) >= (MinuteIndex(prevTick.now) + 1) * 60
          /\ \A j \in JobSet :
                (prevTick.fired[j] > 0 /\ fired[j] > 0) =>
                    MinuteIndex(now) # MinuteIndex(prevTick.now)

\* a job ran in two consecutive ticks, the first of which took no time
C10_Witness ==
    /\ AfterSleep
    /\ prevTick.elapsed = 0
    /\ \E j \in JobSet : prevTick.fired[j] = 1 /\ fired[j] = 1
    /\ MinuteIndex(now) = MinuteIndex(prevTick.now) + 1

----------------------------------------------------------------------------
(* Properties of the cron matcher *)

\* the schedule has five fields, each a wildcard or an integer literal
ValidSchedule ==
    /\ Len(cron_fields) = 5
    /\ \A i \in 1..5 : cron_fields[i].kind \in {"wild", "int"}

\* the component of the instant that field i is compared with
Component(i) ==
    CASE i = 1 -> cron_now.minute
      [] i = 2 -> cron_now.hour
      [] i = 3 -> cron_now.day
      [] i = 4 -> cron_now.month
      [] i = 5 -> CalendarDow(cron_now)

\* C3: for a schedule of five fields, each a wildcard or an integer, the
\* matcher returns true exactly when every integer field equals its component
\* of the instant, the day of the week counting Monday as 1 and Sunday as 7;
\* so all wildcards match every instant and day-of-week 0 matches none.
C3_MatchesIffAllFieldsMatch ==
    (cron_result.done /\ ValidSchedule) =>
        /\ ~cron_result.exc
        /\ cron_result.val <=>
              \A i \in 1..5 : cron_fields[i].kind = "wild" \/ cron_fields[i].val = Component(i)
        /\ (\A i \in 1..5 : cron_fields[i].kind = "wild") => cron_result.val
        /\ (cron_fields[5].kind = "int" /\ cron_fields[5].val = 0) => ~cron_result.val

\* a schedule with day-of-week 7 matched a Sunday
C3_Witness ==
    /\ cron_result.done
    /\ ValidSchedule
    /\ cron_fields[5].kind = "int" /\ cron_fields[5].val = 7
    /\ CalendarDow(cron_now) = 7
    /\ cron_result.val

\* a field is neither a wildcard nor an integer, or there are not five fields
Malformed ==
    \/ Len(cron_fields) # 5
    \/ \E i \in 1..Len(cron_fields) : cron_fields[i].kind = "bad"

\* C4: for a malformed schedule the matcher returns false and does not raise,
\* whether or not the fields before the malformed one match the instant.
C4_MalformedNeverMatches ==
    (cron_result.done /\ Malformed) => (~cron_result.exc /\ ~cron_result.val)

\* the malformed field is reached: it is the third and the two before match
C4_Witness ==
    /\ cron_result.done
    /\ Len(cron_fields) = 5
    /\ cron_fields[1].kind = "int" /\ cron_fields[1].val = cron_now.minute
    /\ cron_fields[2].kind = "int" /\ cron_fields[2].val = cron_now.hour
    /\ cron_fields[3].kind = "bad"
    /\ ~cron_result.exc /\ ~cron_result.val

====
